---- MODULE Spec2Model ----
(***************************************************************************)
(* Model of scripts/3-mashclust-cluster.py: one run of main().  The run is *)
(* a sequential program; `pc` is its position.  The distance file is read  *)
(* as a stream: the header and every row label and cell are drawn when the *)
(* statement that reads them executes.                                     *)
(*                                                                         *)
(* Scaling.  Identity thresholds and distances are fixed-point numbers in  *)
(* units of 1/One, so `1.0 - threshold` is `One - threshold`.  Accessions  *)
(* GC[FA]_<9 digits>[._]<version> are scaled to G<1 digit>[._]<version>.   *)
(* Strings are tuples of one-character strings.                            *)
(***************************************************************************)
EXTENDS Integers, Sequences, FiniteSets, TLC

VARIABLES
    pc,               \* position of main()
    args,             \* argparse namespace: threshold, num_representatives
    dist_exists,      \* dist_file.exists()
    out_file,         \* content of representatives.txt (Untouched until opened)
    json_file,        \* content of clustering_data.json (Untouched until opened)
    all_genomes_list, \* the header's labels, in column order
    genome_paths,     \* dict id -> path, as the sequence of its items in key order
    matrix,           \* the cells read so far: [i, query_id, j, cell]
    neighbors,        \* defaultdict(set): function from its keys to sets of ids
    i,                \* number of data lines read so far
    query_id,         \* id of the row being read
    j,                \* number of cells of that row already handled
    ref_ids,          \* set of protected ids
    genome_connectivity, \* the clustering queue: sequence of [g, deg]
    qpos,             \* number of queue entries already processed
    clusters,         \* list of clusters (sets)
    assigned,         \* set of assigned ids
    representatives,  \* list of selected ids
    cpos,             \* number of clusters already handled by the selection
    rng,              \* numpy generator: the draws made since seed(42)
    prev,             \* outputs and draws of the previous run on the same input
    pair              \* two runs on one matrix at two thresholds

vars == <<pc, args, dist_exists, out_file, json_file, all_genomes_list,
          genome_paths, matrix, neighbors,
          i, query_id, j, ref_ids, genome_connectivity, qpos, clusters,
          assigned, representatives, cpos, rng, prev, pair>>

(***************************************************************************)
(* Bounds of the model.                                                    *)
(***************************************************************************)
MaxN == 3          \* header tokens
MaxRows == 1       \* data lines read
MaxCols == 3       \* distance cells per row
MaxK == 2          \* --num-representatives
MaxTok == 2        \* --reference tokens

PairN == 4         \* header tokens of the two-threshold comparison
PairRows == 2      \* data lines read in the two-threshold comparison

One == 1           \* the literal 1.0 of `1.0 - args.threshold`

(***************************************************************************)
(* Generic helpers: Python list and set idioms.                            *)
(***************************************************************************)
Range(s) == {s[x] : x \in DOMAIN s}

IsInjective(s) == \A x, y \in DOMAIN s : s[x] = s[y] => x = y

\* All orders in which the members of a set can be enumerated: list(a_set).
Enumerations(S) == {s \in [1..Cardinality(S) -> S] : IsInjective(s)}

\* Sequences over S of length at most n.
SeqUpTo(S, n) == UNION {[1..m -> S] : m \in 0..n}

Min(a, b) == IF a <= b THEN a ELSE b

(***************************************************************************)
(* Strings, names and paths.                                               *)
(***************************************************************************)
Digits == {"1", "2", "3"}
Separators == {".", "_"}

\* match of the scaled accession pattern G\d[._]\d+ at position p of name
MatchesAt(name, p) ==
    /\ p + 3 <= Len(name)
    /\ name[p] = "G"
    /\ name[p + 1] \in Digits
    /\ name[p + 2] \in Separators
    /\ name[p + 3] \in Digits

\* end of the greedy \d+ that starts at position p
RECURSIVE DigitsEnd(_, _)
DigitsEnd(name, p) ==
    IF p + 1 <= Len(name) /\ name[p + 1] \in Digits
    THEN DigitsEnd(name, p + 1) ELSE p

\* re.search(pattern, name): the leftmost match, <<>> when there is none
ReSearch(name) ==
    LET hits == {p \in 1..Len(name) : MatchesAt(name, p)}
    IN  IF hits = {} THEN <<>>
        ELSE LET p == CHOOSE q \in hits : \A r \in hits : q <= r
             IN  SubSeq(name, p, DigitsEnd(name, p + 3))

extract_genome_id(path) ==
    IF ReSearch(path.name) # <<>> THEN ReSearch(path.name)
    ELSE IF ReSearch(path.parent) # <<>> THEN ReSearch(path.parent)
    ELSE path.parent

normalize_id(acc_id) ==
    [x \in DOMAIN acc_id |-> IF acc_id[x] = "." THEN "_" ELSE acc_id[x]]

\* Python's `sub in s` for strings
Contains(s, sub) ==
    \E p \in 0..(Len(s) - Len(sub)) : SubSeq(s, p + 1, p + Len(sub)) = sub

(***************************************************************************)
(* The inputs: paths that can label a column or a row, cells, arguments.   *)
(***************************************************************************)
PathA == [parent |-> <<"d">>, name |-> <<"G", "1", ".", "1", "f">>]
PathB == [parent |-> <<"G", "2", "_", "1">>, name |-> <<"g">>]
PathC == [parent |-> <<"s">>, name |-> <<"g">>]
PathD == [parent |-> <<"G", "1", "_", "1">>, name |-> <<"g">>]
PathA2 == [parent |-> <<"G", "1", ".", "1">>, name |-> <<"h">>]
PathE == [parent |-> <<"e">>, name |-> <<"G", "3", "_", "2", "2">>]
PathX == [parent |-> <<"u">>, name |-> <<"g">>]

HeaderPaths == {PathA, PathB, PathC, PathA2}
RowPaths == HeaderPaths \cup {PathX}

Headers == {h \in SeqUpTo(HeaderPaths, MaxN) : IsInjective(h)}

\* a distance cell: a decimal number, the text nan, or text float() rejects
Cells == [kind : {"num"}, val : 0..One] \cup [kind : {"nan", "bad"}, val : {0}]

Thresholds == 0..One
Ks == 1..MaxK

\* args.reference: absent (None, modelled as the empty list) or 1..MaxTok tokens
Tokens == {<<"G", "1", ".", "1">>, <<"G", "2">>, <<"s">>, <<"_", "1">>, <<"G", "9">>}
References == SeqUpTo(Tokens, MaxTok)

NoId == <<>>       \* value of query_id before the first row
\* a file this run has not opened for writing: absent, or as it was before
Untouched == [state |-> "untouched", lines |-> <<>>]
UntouchedJson == [state |-> "untouched", clusters |-> <<>>, neighbors |-> <<>>,
                  genome_names |-> <<>>, identity_threshold |-> 0]
NoPrev == [runs |-> 0, representatives |-> <<>>, out_file |-> Untouched,
           json_file |-> UntouchedJson, rng |-> <<>>]
NoPair == [pc |-> "idle"]

(***************************************************************************)
(* dict and defaultdict(set).                                              *)
(***************************************************************************)
Keys(d) == [x \in DOMAIN d |-> d[x].gid]
KeySet(d) == {d[x].gid : x \in DOMAIN d}

\* d[k] = v: a new key goes last, an existing key keeps its place
DictSet(d, k, v) ==
    IF k \in KeySet(d)
    THEN [x \in DOMAIN d |-> IF d[x].gid = k THEN [gid |-> k, path |-> v] ELSE d[x]]
    ELSE Append(d, [gid |-> k, path |-> v])

\* d[k] for a key of d
DictGet(d, k) == d[CHOOSE x \in DOMAIN d : d[x].gid = k].path

\* neighbors[g] read without creating the key
NbGet(nb, g) == IF g \in DOMAIN nb THEN nb[g] ELSE {}

\* neighbors[g].add(h): the key g is created when missing
NbAdd(nb, g, h) ==
    [x \in DOMAIN nb \cup {g} |-> IF x = g THEN NbGet(nb, g) \cup {h} ELSE nb[x]]

\* neighbors[g] for every g of gs: missing keys appear with an empty set
NbTouch(nb, gs) == [x \in DOMAIN nb \cup gs |-> NbGet(nb, x)]

(***************************************************************************)
(* 1. Parse distance matrix.                                               *)
(***************************************************************************)
\* mutant: the identity threshold itself is used as the distance cutoff
distance_threshold_NoComplement(threshold) == threshold

\* line 58
distance_threshold(threshold) == One - threshold

RECURSIVE MapPaths(_, _)
MapPaths(d, header) ==
    IF header = <<>> THEN d
    ELSE MapPaths(DictSet(d, extract_genome_id(Head(header)), Head(header)),
                  Tail(header))

\* mutant: only the row's side of the edge is stored
InsertEdge_OneWay(nb, q, t) == NbAdd(nb, q, t)

\* lines 87-88
InsertEdge(nb, q, t) == NbAdd(NbAdd(nb, q, t), t, q)

\* One pass of the body of `for j, d_str in enumerate(dists)`; jj is 0-based.
\* float() raises ValueError on text that is not a number (caught: continue);
\* genome_ids_ordered[jj] raises IndexError past the end (not caught).
ParseCell(nb, ids, q, jj, cell, cutoff) ==
    IF cell.kind = "bad" THEN [nb |-> nb, raised |-> FALSE]
    ELSE IF jj >= Len(ids) THEN [nb |-> nb, raised |-> TRUE]
    ELSE IF q # ids[jj + 1] /\ cell.kind = "num" /\ cell.val <= cutoff
         THEN [nb |-> InsertEdge(nb, q, ids[jj + 1]), raised |-> FALSE]
         ELSE [nb |-> nb, raised |-> FALSE]

(***************************************************************************)
(* 2. Identify references.                                                 *)
(***************************************************************************)
\* mutant: the scan has no break, the last matching key is kept
FirstMatch_Last(ref_input, ids) ==
    LET hits == {x \in DOMAIN ids :
                    Contains(normalize_id(ids[x]), normalize_id(ref_input))}
    IN  IF hits = {} THEN {}
        ELSE {ids[CHOOSE x \in hits : \A y \in hits : x >= y]}

\* the first key whose normalized form contains the normalized token
FirstMatch(ref_input, ids) ==
    LET hits == {x \in DOMAIN ids :
                    Contains(normalize_id(ids[x]), normalize_id(ref_input))}
    IN  IF hits = {} THEN {}
        ELSE {ids[CHOOSE x \in hits : \A y \in hits : x <= y]}

IdentifyReferences(no_reference_protection, reference, ids) ==
    IF ~no_reference_protection /\ reference # <<>>
    THEN UNION {FirstMatch(reference[x], ids) : x \in DOMAIN reference}
    ELSE {}

\* the values ref_ids can take over all reference arguments
ReferenceSets(ids) ==
    {IdentifyReferences(no_reference_protection, reference, ids) :
        no_reference_protection \in BOOLEAN, reference \in References}

(***************************************************************************)
(* 3. Greedy clustering.                                                   *)
(***************************************************************************)
\* mutant: a sort that reverses the order of equal keys
RECURSIVE SortByDegree_Unstable(_)
SortByDegree_Unstable(s) ==
    IF s = <<>> THEN <<>>
    ELSE LET x == s[Len(s)]
             sorted == SortByDegree_Unstable(SubSeq(s, 1, Len(s) - 1))
             Above(e) == e.deg > x.deg
             NotAbove(e) == e.deg <= x.deg
         IN  SelectSeq(sorted, Above) \o <<x>> \o SelectSeq(sorted, NotAbove)

\* list.sort(key=deg, reverse=True): stable, equal keys keep their order
RECURSIVE SortByDegree(_)
SortByDegree(s) ==
    IF s = <<>> THEN <<>>
    ELSE LET x == s[Len(s)]
             sorted == SortByDegree(SubSeq(s, 1, Len(s) - 1))
             NotBelow(e) == e.deg >= x.deg
             Below(e) == e.deg < x.deg
         IN  SelectSeq(sorted, NotBelow) \o <<x>> \o SelectSeq(sorted, Below)

Connectivity(nb, ids) == [x \in DOMAIN ids |-> [g |-> ids[x], deg |-> Cardinality(NbGet(nb, ids[x]))]]

\* mutant: the references are not moved to the front
ClusteringQueue_NoPriority(nb, ids, refs) == SortByDegree(Connectivity(nb, ids))

ClusteringQueue(nb, ids, refs) ==
    LET gc == Connectivity(nb, ids)
        IsRef(e) == e.g \in refs
        IsOther(e) == e.g \notin refs
    IN  IF refs # {}
        THEN SortByDegree(SelectSeq(gc, IsRef)) \o SortByDegree(SelectSeq(gc, IsOther))
        ELSE SortByDegree(gc)

\* mutant: the seed absorbs nothing
NewCluster_SeedOnly(nb, done, g) == {g}

\* mutant: the neighbors of the absorbed neighbors are absorbed too
NewCluster_TwoHop(nb, done, g) ==
    {g} \cup ((NbGet(nb, g) \cup UNION {NbGet(nb, x) : x \in NbGet(nb, g)}) \ (done \cup {g}))

\* mutant: the inner loop runs over the keys of neighbors, not over neighbors[g]
NewCluster_AllKeys(nb, done, g) == {g} \cup (DOMAIN nb \ (done \cup {g}))

\* The cluster a still unassigned g starts: g and its unassigned neighbors.
NewCluster(nb, done, g) == {g} \cup (NbGet(nb, g) \ (done \cup {g}))

\* mutant: the loop does not skip an identifier that is already assigned
RECURSIVE GreedyClusters_NoSkip(_, _, _, _)
GreedyClusters_NoSkip(queue, nb, done, acc) ==
    IF queue = <<>> THEN acc
    ELSE LET g == Head(queue).g
         IN  GreedyClusters_NoSkip(Tail(queue), nb, done \cup NewCluster(nb, done, g),
                                   Append(acc, NewCluster(nb, done, g)))

\* The whole loop of lines 125-137 over a queue: the clusters, as sets.
RECURSIVE GreedyClusters(_, _, _, _)
GreedyClusters(queue, nb, done, acc) ==
    IF queue = <<>> THEN acc
    ELSE LET g == Head(queue).g
         IN  IF g \in done
             THEN GreedyClusters(Tail(queue), nb, done, acc)
             ELSE GreedyClusters(Tail(queue), nb, done \cup NewCluster(nb, done, g),
                                 Append(acc, NewCluster(nb, done, g)))

(***************************************************************************)
(* 4. Select representatives.                                              *)
(***************************************************************************)
\* mutant: the loop has no break, every reference of the cluster is taken
RefsFirst_NoCap(pool, k, refs) ==
    LET IsRef(m) == m \in refs
        selected == IF refs # {} THEN SelectSeq(pool, IsRef) ELSE <<>>
        Left(m) == m \notin Range(selected)
    IN  [selected |-> selected, pool |-> SelectSeq(pool, Left)]

\* mutant: the references get no priority
RefsFirst_NoRefs(pool, k, refs) == [selected |-> <<>>, pool |-> pool]

\* mutant: the loop stops one reference early
RefsFirst_EarlyBreak(pool, k, refs) ==
    LET IsRef(m) == m \in refs
        refs_in_cluster == IF refs # {} THEN SelectSeq(pool, IsRef) ELSE <<>>
        selected == SubSeq(refs_in_cluster, 1, Min(Len(refs_in_cluster), k - 1))
        Left(m) == m \notin Range(selected)
    IN  [selected |-> selected, pool |-> SelectSeq(pool, Left)]

\* The reference pick-up of an oversized cluster: the references of the pool
\* in pool order, until num_representatives are selected.
RefsFirst(pool, k, refs) ==
    LET IsRef(m) == m \in refs
        refs_in_cluster == IF refs # {} THEN SelectSeq(pool, IsRef) ELSE <<>>
        selected == SubSeq(refs_in_cluster, 1, Min(Len(refs_in_cluster), k))
        Left(m) == m \notin Range(selected)
    IN  [selected |-> selected, pool |-> SelectSeq(pool, Left)]

\* np.random.choice(pool, size, replace=False) is pool[permutation(n)[:size]];
\* idx is that prefix of the generator's permutation.
RandomChoice(pool, idx) == [x \in DOMAIN idx |-> pool[idx[x]]]

Draws(n, size) == {s \in [1..size -> 1..n] : IsInjective(s)}

(***************************************************************************)
(* The run.  A set object is held as the order in which it enumerates (its  *)
(* members are the Range): `clusters` is the list of those orders.         *)
(***************************************************************************)
Init ==
    /\ pc = "start"
    /\ args \in [threshold : Thresholds, num_representatives : Ks]
    /\ dist_exists \in BOOLEAN
    /\ out_file = Untouched
    /\ json_file = UntouchedJson
    /\ all_genomes_list = <<>>
    /\ genome_paths = <<>>
    /\ matrix = {}
    /\ neighbors = <<>>
    /\ i = 0
    /\ query_id = NoId
    /\ j = 0
    /\ ref_ids = {}
    /\ genome_connectivity = <<>>
    /\ qpos = 0
    /\ clusters = <<>>
    /\ assigned = {}
    /\ representatives = <<>>
    /\ cpos = 0
    /\ rng = <<>>
    /\ prev = NoPrev
    /\ pair = NoPair

\* mutant: the existence check is skipped
CheckInput_NoExit ==
    /\ pc = "start"
    /\ pc' = "header"
    /\ UNCHANGED <<args, dist_exists, out_file, json_file, genome_paths,
                   neighbors, i, query_id, j, ref_ids, genome_connectivity,
                   qpos, clusters, assigned, representatives, cpos, rng, prev, pair,
                   all_genomes_list, matrix>>

\* lines 45-50: sys.exit(1) when the distance file is missing
CheckInput ==
    /\ pc = "start"
    /\ pc' = IF dist_exists THEN "header" ELSE "exit"
    /\ UNCHANGED <<args, dist_exists, out_file, json_file, genome_paths,
                   neighbors, i, query_id, j, ref_ids, genome_connectivity,
                   qpos, clusters, assigned, representatives, cpos, rng, prev, pair,
                   all_genomes_list, matrix>>

\* lines 63-71: the header line
ReadHeader ==
    /\ pc = "header"
    /\ \E header \in Headers :
          /\ all_genomes_list' = header
          /\ genome_paths' = MapPaths(<<>>, header)
    /\ pc' = "rows"
    /\ UNCHANGED <<args, dist_exists, out_file, json_file, matrix,
                   neighbors, i, query_id, j, ref_ids, genome_connectivity,
                   qpos, clusters, assigned, representatives, cpos, rng, prev, pair>>

\* lines 74-79: the next data line; a line of fewer than 2 fields is skipped
ReadLine ==
    /\ pc = "rows"
    /\ i < MaxRows
    /\ i' = i + 1
    /\ \/ UNCHANGED <<pc, query_id, j>>
       \/ \E p \in RowPaths :
            /\ query_id' = extract_genome_id(p)
            /\ j' = 0
            /\ pc' = "cells"
    /\ UNCHANGED <<args, dist_exists, out_file, json_file, genome_paths,
                   neighbors, ref_ids, genome_connectivity,
                   qpos, clusters, assigned, representatives, cpos, rng, prev, pair,
                   all_genomes_list, matrix>>

\* lines 81-90: the next cell of the row; `last` tells whether the line ends here
ReadCell ==
    /\ pc = "cells"
    /\ j < MaxCols
    /\ \E cell \in Cells, last \in BOOLEAN :
         LET r == ParseCell(neighbors, Keys(genome_paths), query_id, j, cell,
                            distance_threshold(args.threshold))
         IN  /\ (j + 1 = MaxCols) => last
             /\ neighbors' = r.nb
             /\ matrix' = matrix \cup {[i |-> i, query_id |-> query_id,
                                        j |-> j, cell |-> cell]}
             /\ query_id' = IF last /\ ~r.raised THEN NoId ELSE query_id
             /\ IF r.raised
                THEN pc' = "crash" /\ j' = j
                ELSE IF last THEN pc' = "rows" /\ j' = 0
                ELSE pc' = "cells" /\ j' = j + 1
    /\ UNCHANGED <<args, dist_exists, out_file, json_file, genome_paths,
                   i, ref_ids, genome_connectivity,
                   qpos, clusters, assigned, representatives, cpos, rng, prev, pair,
                   all_genomes_list>>

\* line 74: the file is exhausted; the header's labels, the line counter and
\* the cells are not read again
EndOfFile ==
    /\ pc = "rows"
    /\ pc' = "refs"
    /\ i' = 0
    /\ all_genomes_list' = <<>>
    /\ matrix' = {}
    /\ UNCHANGED <<args, dist_exists, out_file, json_file, genome_paths,
                   neighbors, query_id, j, ref_ids, genome_connectivity,
                   qpos, clusters, assigned, representatives, cpos, rng, prev, pair>>

\* lines 93-105
IdentifyRefs ==
    /\ pc = "refs"
    /\ ref_ids' \in ReferenceSets(Keys(genome_paths))
    /\ pc' = "queue"
    /\ UNCHANGED <<args, dist_exists, out_file, json_file, genome_paths,
                   neighbors, i, query_id, j, genome_connectivity,
                   qpos, clusters, assigned, representatives, cpos, rng, prev, pair,
                   all_genomes_list, matrix>>

\* lines 109-123: reading neighbors[g] creates the missing keys
BuildQueue ==
    /\ pc = "queue"
    /\ neighbors' = NbTouch(neighbors, KeySet(genome_paths))
    /\ genome_connectivity' = ClusteringQueue(neighbors, Keys(genome_paths), ref_ids)
    /\ clusters' = <<>>
    /\ assigned' = {}
    /\ qpos' = 0
    /\ pc' = "cluster"
    /\ UNCHANGED <<args, dist_exists, out_file, json_file, genome_paths,
                   i, query_id, j, ref_ids,
                   representatives, cpos, rng, prev, pair,
                   all_genomes_list, matrix>>

\* lines 125-137: one entry of the queue
ClusterNext ==
    /\ pc = "cluster"
    /\ qpos < Len(genome_connectivity)
    /\ qpos' = qpos + 1
    /\ LET g == genome_connectivity[qpos + 1].g
       IN  IF g \in assigned
           THEN UNCHANGED <<clusters, assigned>>
           ELSE LET cluster == NewCluster(neighbors, assigned, g)
                IN  /\ \E order \in Enumerations(cluster) :
                          clusters' = Append(clusters, order)
                    /\ assigned' = assigned \cup cluster
    /\ UNCHANGED <<pc, args, dist_exists, out_file, json_file, genome_paths,
                   neighbors, i, query_id, j, ref_ids, genome_connectivity,
                   representatives, cpos, rng, prev, pair,
                   all_genomes_list, matrix>>

\* lines 139-143: the queue is exhausted; np.random.seed(42)
ClusterDone ==
    /\ pc = "cluster"
    /\ qpos = Len(genome_connectivity)
    /\ representatives' = <<>>
    /\ rng' = <<>>
    /\ cpos' = 0
    /\ pc' = "select"
    /\ UNCHANGED <<args, dist_exists, out_file, json_file, genome_paths,
                   neighbors, i, query_id, j, ref_ids, genome_connectivity,
                   qpos, clusters, assigned, prev, pair,
                   all_genomes_list, matrix>>

\* The generator is a function of the seed and of the calls made so far: a
\* call that repeats the previous run's call history repeats its result.
Repeats(n, idx) ==
    LET c == Len(rng) + 1
    IN  (/\ prev.runs > 0
         /\ c <= Len(prev.rng)
         /\ SubSeq(prev.rng, 1, c - 1) = rng
         /\ prev.rng[c].n = n
         /\ Len(prev.rng[c].idx) = Len(idx)) => idx = prev.rng[c].idx

\* lines 145-167: one cluster
SelectNext ==
    /\ pc = "select"
    /\ cpos < Len(clusters)
    /\ cpos' = cpos + 1
    /\ LET cluster_list == clusters[cpos + 1]
           k == args.num_representatives
           rf == RefsFirst(cluster_list, k, ref_ids)
           slots_left == k - Len(rf.selected)
       IN  IF Len(cluster_list) <= k
           THEN /\ representatives' = representatives \o cluster_list
                /\ rng' = rng
           ELSE IF slots_left > 0
           THEN \E idx \in Draws(Len(rf.pool), slots_left) :
                   /\ Repeats(Len(rf.pool), idx)
                   /\ representatives' =
                          representatives \o rf.selected \o RandomChoice(rf.pool, idx)
                   /\ rng' = Append(rng, [n |-> Len(rf.pool), idx |-> idx])
           ELSE /\ representatives' = representatives \o rf.selected
                /\ rng' = rng
    /\ UNCHANGED <<pc, args, dist_exists, out_file, json_file, genome_paths,
                   neighbors, i, query_id, j, ref_ids, genome_connectivity,
                   qpos, clusters, assigned, prev, pair,
                   all_genomes_list, matrix>>

\* the lines written before genome_paths[r] raises KeyError (all, if it does not)
RECURSIVE PathLines(_, _)
PathLines(d, reps) ==
    IF reps = <<>> \/ Head(reps) \notin KeySet(d) THEN <<>>
    ELSE <<DictGet(d, Head(reps))>> \o PathLines(d, Tail(reps))

\* every way to turn the neighbor sets into lists
NeighborLists(nb) ==
    {f \in [DOMAIN nb -> UNION {Enumerations(nb[g]) : g \in DOMAIN nb}] :
        \A g \in DOMAIN nb : f[g] \in Enumerations(nb[g])}

\* lines 171-187: both artifacts; a KeyError leaves the list file cut short
WriteOutputs ==
    /\ pc = "select"
    /\ cpos = Len(clusters)
    /\ out_file' = [state |-> "written", lines |-> PathLines(genome_paths, representatives)]
    /\ IF Range(representatives) \subseteq KeySet(genome_paths)
       THEN /\ \E lists \in NeighborLists(neighbors) :
                 json_file' = [state |-> "written",
                               clusters |-> clusters,
                               neighbors |-> lists,
                               genome_names |-> genome_paths,
                               identity_threshold |-> args.threshold]
            /\ pc' = "done"
       ELSE /\ json_file' = json_file
            /\ pc' = "crash"
    /\ UNCHANGED <<args, dist_exists, genome_paths,
                   neighbors, i, query_id, j, ref_ids, genome_connectivity,
                   qpos, clusters, assigned, representatives, cpos, rng, prev, pair,
                   all_genomes_list, matrix>>

Next ==
    \/ CheckInput
    \/ ReadHeader
    \/ ReadLine
    \/ ReadCell
    \/ EndOfFile
    \/ IdentifyRefs
    \/ BuildQueue
    \/ ClusterNext
    \/ ClusterDone
    \/ SelectNext
    \/ WriteOutputs

Spec == Init /\ [][Next]_vars

(***************************************************************************)
(* A second run on the same distance file with the same arguments.  Lines  *)
(* 39-105 enumerate no set and draw nothing from the generator, so the new *)
(* process reaches line 107 with the genome_paths, neighbors and ref_ids   *)
(* of the first run; it is taken up from there.  `prev` keeps what the     *)
(* first run wrote and what its generator returned.                        *)
(***************************************************************************)
Rerun ==
    /\ pc = "done"
    /\ prev.runs = 0
    /\ prev' = [runs |-> 1, representatives |-> representatives,
                out_file |-> out_file, json_file |-> json_file, rng |-> rng]
    /\ neighbors' = [g \in {x \in DOMAIN neighbors : neighbors[x] # {}} |-> neighbors[g]]
    /\ genome_connectivity' = <<>>
    /\ qpos' = 0
    /\ clusters' = <<>>
    /\ assigned' = {}
    /\ representatives' = <<>>
    /\ cpos' = 0
    /\ rng' = <<>>
    /\ pc' = "queue"
    /\ UNCHANGED <<args, dist_exists, out_file, json_file, genome_paths,
                   i, query_id, j, ref_ids, pair,
                   all_genomes_list, matrix>>

NextRerun ==
    \/ Next
    \/ Rerun

SpecRerun == Init /\ [][NextRerun]_vars

(***************************************************************************)
(* The run with the reference arguments held in args from the start, and a *)
(* second run on the same distance file from which the tokens are left     *)
(* out.  Lines 39-90 read neither argument, enumerate no set and draw      *)
(* nothing, so the second process reaches line 92 with the genome_paths    *)
(* and neighbors of the first; it is taken up from there.                  *)
(***************************************************************************)
InitTokens ==
    /\ pc = "start"
    /\ args \in [threshold : {0}, num_representatives : {1},
                 reference : References, no_reference_protection : BOOLEAN]
    /\ dist_exists = TRUE
    /\ out_file = Untouched
    /\ json_file = UntouchedJson
    /\ all_genomes_list = <<>>
    /\ genome_paths = <<>>
    /\ matrix = {}
    /\ neighbors = <<>>
    /\ i = 0
    /\ query_id = NoId
    /\ j = 0
    /\ ref_ids = {}
    /\ genome_connectivity = <<>>
    /\ qpos = 0
    /\ clusters = <<>>
    /\ assigned = {}
    /\ representatives = <<>>
    /\ cpos = 0
    /\ rng = <<>>
    /\ prev = NoPrev
    /\ pair = NoPair

\* lines 93-105 on args.reference and args.no_reference_protection
IdentifyRefsOfArgs ==
    /\ pc = "refs"
    /\ ref_ids' = IdentifyReferences(args.no_reference_protection, args.reference,
                                     Keys(genome_paths))
    /\ pc' = "queue"
    /\ UNCHANGED <<args, dist_exists, out_file, json_file, genome_paths,
                   neighbors, i, query_id, j, genome_connectivity,
                   qpos, clusters, assigned, representatives, cpos, rng, prev, pair,
                   all_genomes_list, matrix>>

\* the run that ignored its tokens is followed by a run without --reference
RerunWithoutTokens ==
    /\ pc = "done"
    /\ prev.runs = 0
    /\ args.no_reference_protection
    /\ args.reference # <<>>
    /\ prev' = [runs |-> 1, representatives |-> representatives,
                out_file |-> out_file, json_file |-> json_file, rng |-> rng,
                ref_ids |-> ref_ids, genome_connectivity |-> genome_connectivity,
                clusters |-> clusters]
    /\ \E flag \in BOOLEAN :
          args' = [args EXCEPT !.reference = <<>>, !.no_reference_protection = flag]
    /\ neighbors' = [g \in {x \in DOMAIN neighbors : neighbors[x] # {}} |-> neighbors[g]]
    /\ ref_ids' = {}
    /\ genome_connectivity' = <<>>
    /\ qpos' = 0
    /\ clusters' = <<>>
    /\ assigned' = {}
    /\ representatives' = <<>>
    /\ cpos' = 0
    /\ rng' = <<>>
    /\ pc' = "refs"
    /\ UNCHANGED <<dist_exists, out_file, json_file, genome_paths,
                   i, query_id, j, pair,
                   all_genomes_list, matrix>>

NextTokens ==
    \/ CheckInput
    \/ ReadHeader
    \/ ReadLine
    \/ ReadCell
    \/ EndOfFile
    \/ IdentifyRefsOfArgs
    \/ BuildQueue
    \/ ClusterNext
    \/ ClusterDone
    \/ SelectNext
    \/ WriteOutputs
    \/ RerunWithoutTokens

SpecTokens == InitTokens /\ [][NextTokens]_vars

(***************************************************************************)
(* Two runs on one distance file with the same reference arguments, at the *)
(* identity thresholds lo <= hi.  Both read the same header, labels and    *)
(* cells, so they are stepped together: `pair` holds what differs, the two *)
(* neighbor mappings and the two cluster lists.                            *)
(***************************************************************************)
PairHeader == <<PathA, PathB, PathC, PathD, PathE>>
PairHeaders == {SubSeq(PairHeader, 1, n) : n \in 0..Min(PairN, Len(PairHeader))}

InitPair ==
    /\ pc = "start"
    /\ args = [threshold |-> One, num_representatives |-> 1]
    /\ dist_exists = TRUE
    /\ out_file = Untouched
    /\ json_file = UntouchedJson
    /\ all_genomes_list = <<>>
    /\ genome_paths = <<>>
    /\ matrix = {}
    /\ neighbors = <<>>
    /\ i = 0
    /\ query_id = NoId
    /\ j = 0
    /\ ref_ids = {}
    /\ genome_connectivity = <<>>
    /\ qpos = 0
    /\ clusters = <<>>
    /\ assigned = {}
    /\ representatives = <<>>
    /\ cpos = 0
    /\ rng = <<>>
    /\ prev = NoPrev
    /\ \E lo \in Thresholds, hi \in Thresholds, header \in PairHeaders :
          /\ lo <= hi
          /\ pair = [pc |-> "rows", lo |-> lo, hi |-> hi,
                     genome_paths |-> MapPaths(<<>>, header),
                     i |-> 0, query_id |-> NoId, j |-> 0,
                     nbLo |-> <<>>, nbHi |-> <<>>, ref_ids |-> {},
                     clLo |-> <<>>, clHi |-> <<>>]

\* lines 74-79 in both runs
PairReadLine ==
    /\ pair.pc = "rows"
    /\ pair.i < PairRows
    /\ \E p \in Range(PairHeader) \cup {PathX} :
          pair' = [pair EXCEPT !.pc = "cells", !.i = @ + 1,
                               !.query_id = extract_genome_id(p), !.j = 0]
    /\ UNCHANGED <<pc, args, dist_exists, out_file, json_file, genome_paths,
                   neighbors, i, query_id, j, ref_ids, genome_connectivity,
                   qpos, clusters, assigned, representatives, cpos, rng, prev,
                   all_genomes_list, matrix>>

\* lines 81-90 in both runs
PairReadCell ==
    /\ pair.pc = "cells"
    /\ pair.j < PairN
    /\ \E cell \in Cells, last \in BOOLEAN :
         LET ids == Keys(pair.genome_paths)
             lo == ParseCell(pair.nbLo, ids, pair.query_id, pair.j, cell,
                             distance_threshold(pair.lo))
             hi == ParseCell(pair.nbHi, ids, pair.query_id, pair.j, cell,
                             distance_threshold(pair.hi))
         IN  /\ (pair.j + 1 = PairN) => last
             /\ pair' = [pair EXCEPT
                    !.nbLo = lo.nb,
                    !.nbHi = hi.nb,
                    !.pc = IF lo.raised \/ hi.raised THEN "crash"
                           ELSE IF last THEN "rows" ELSE "cells",
                    !.j = IF lo.raised \/ hi.raised THEN @
                          ELSE IF last THEN 0 ELSE @ + 1,
                    !.query_id = IF last /\ ~(lo.raised \/ hi.raised) THEN NoId ELSE @]
    /\ UNCHANGED <<pc, args, dist_exists, out_file, json_file, genome_paths,
                   neighbors, i, query_id, j, ref_ids, genome_connectivity,
                   qpos, clusters, assigned, representatives, cpos, rng, prev,
                   all_genomes_list, matrix>>

\* lines 93-139 in both runs: references, queue and greedy clustering
PairCluster ==
    /\ pair.pc = "rows"
    /\ \E refs \in ReferenceSets(Keys(pair.genome_paths)) :
         LET ids == Keys(pair.genome_paths)
             lo == NbTouch(pair.nbLo, Range(ids))
             hi == NbTouch(pair.nbHi, Range(ids))
         IN  pair' = [pair EXCEPT
                 !.pc = "done", !.i = 0, !.ref_ids = refs,
                 !.nbLo = lo, !.nbHi = hi,
                 !.clLo = GreedyClusters(ClusteringQueue(lo, ids, refs), lo, {}, <<>>),
                 !.clHi = GreedyClusters(ClusteringQueue(hi, ids, refs), hi, {}, <<>>)]
    /\ UNCHANGED <<pc, args, dist_exists, out_file, json_file, genome_paths,
                   neighbors, i, query_id, j, ref_ids, genome_connectivity,
                   qpos, clusters, assigned, representatives, cpos, rng, prev,
                   all_genomes_list, matrix>>

NextPair ==
    \/ PairReadLine
    \/ PairReadCell
    \/ PairCluster

SpecPair == InitPair /\ [][NextPair]_vars

(***************************************************************************)
(* Views of the run used by the properties.                                *)
(***************************************************************************)
Universe == KeySet(genome_paths)
K == args.num_representatives
ClusteringFinished == pc \in {"select", "done"}

\* the members of cluster c, and those of them that are protected
Members(c) == Range(clusters[c])
RefsIn(c) == Members(c) \cap ref_ids

\* the places of the representative list taken from cluster c
Picks(c) == {p \in DOMAIN representatives : representatives[p] \in Members(c)}
RefPicks(c) == {p \in Picks(c) : representatives[p] \in ref_ids}

(***************************************************************************)
(* C1.  Partition invariant: when greedy clustering has finished the       *)
(* clusters are pairwise disjoint, every identifier of the universe (the   *)
(* identifiers of the header) is in exactly one cluster, and no cluster    *)
(* holds an identifier outside the universe.                               *)
(***************************************************************************)
C1_Partition ==
    ClusteringFinished =>
        /\ \A g \in Universe :
              Cardinality({c \in DOMAIN clusters : g \in Members(c)}) = 1
        /\ \A c, d \in DOMAIN clusters : c # d => Members(c) \cap Members(d) = {}
        /\ \A c \in DOMAIN clusters : Members(c) \subseteq Universe

(***************************************************************************)
(* C2.  Symmetry invariant: in every state of the run, so after every edge *)
(* insertion, b is in a's neighbor set iff a is in b's neighbor set.       *)
(***************************************************************************)
C2_Symmetry ==
    \A a \in DOMAIN neighbors : \A b \in neighbors[a] :
        b \in DOMAIN neighbors /\ a \in neighbors[b]

\* an edge exists although only the row of one of its ends has been read
C2_Witness ==
    /\ pc = "cells"
    /\ \E a \in DOMAIN neighbors : a # query_id /\ query_id \in neighbors[a]

(***************************************************************************)
(* C5.  Cap respected: from every cluster the selection has handled it has *)
(* taken exactly min(cluster size, k) representatives, all distinct; every *)
(* member when the cluster has at most k members.                          *)
(***************************************************************************)
C5_CapRespected ==
    \A c \in 1..cpos :
        /\ Cardinality(Picks(c)) = Min(Len(clusters[c]), K)
        /\ Cardinality({representatives[p] : p \in Picks(c)}) = Cardinality(Picks(c))
        /\ Len(clusters[c]) <= K =>
              Members(c) \subseteq {representatives[p] : p \in Picks(c)}

\* the run has finished, having cut a cluster with references down to k and
\* having kept a cluster of at most k members whole
C5_Witness ==
    /\ pc = "done"
    /\ \E c \in DOMAIN clusters : Len(clusters[c]) > K /\ RefsIn(c) # {}
    /\ \E c \in DOMAIN clusters : Len(clusters[c]) <= K

(***************************************************************************)
(* C6.  Reference priority: of the representatives taken from a cluster    *)
(* larger than k that holds r >= 1 references, min(r, k) are references    *)
(* and the other k - min(r, k), the sampled ones, are not.                 *)
(***************************************************************************)
C6_ReferencePriority ==
    \A c \in 1..cpos :
        (Len(clusters[c]) > K /\ RefsIn(c) # {}) =>
            /\ Cardinality(RefPicks(c)) >= Min(Cardinality(RefsIn(c)), K)
            /\ Cardinality(Picks(c) \ RefPicks(c)) = K - Min(Cardinality(RefsIn(c)), K)

\* Scenario B at the scale of the model: a cluster of 3, k = 2, one reference
C6_Witness ==
    /\ pc = "done"
    /\ K = 2
    /\ \E c \in DOMAIN clusters :
          /\ Len(clusters[c]) = 3
          /\ Members(c) \subseteq Universe
          /\ Cardinality(RefsIn(c)) = 1
          /\ Cardinality(Picks(c)) = 2
          /\ RefsIn(c) \subseteq Range(representatives)

(***************************************************************************)
(* C7.  Reference protection as claimed: every identifier of the           *)
(* ReferenceSet is in the final representative list.                       *)
(***************************************************************************)
C7_EveryReferenceListed ==
    pc = "done" => ref_ids \subseteq Range(representatives)

(***************************************************************************)
(* C7, amended.  Every protected identifier is in exactly one cluster; the *)
(* references of a cluster are all in the final list unless the cluster is *)
(* larger than k and holds more than k of them, and then exactly k of them *)
(* are.                                                                    *)
(***************************************************************************)
C7_ReferencesListedUpToCap ==
    pc = "done" =>
        /\ \A r \in ref_ids : \E c \in DOMAIN clusters : r \in Members(c)
        /\ \A c \in DOMAIN clusters :
              IF Len(clusters[c]) <= K \/ Cardinality(RefsIn(c)) <= K
              THEN RefsIn(c) \subseteq Range(representatives)
              ELSE Cardinality(RefsIn(c) \cap Range(representatives)) = K

\* a finished run with an oversized cluster whose references all fit, and one
\* with a cluster that holds more references than k
C7_Witness ==
    /\ pc = "done"
    /\ \E c \in DOMAIN clusters :
          /\ Len(clusters[c]) > K
          /\ Cardinality(RefsIn(c)) = 2

(***************************************************************************)
(* C8.  Determinism: a second run on the same matrix, threshold, cap and   *)
(* reference tokens ends with the same representative list, in the same    *)
(* order, and the same snapshot, whatever order the sets enumerate in.     *)
(* Stated for the runs whose clusters hold identifiers of the header only. *)
(***************************************************************************)
C8_Determinism ==
    (prev.runs = 1 /\ pc = "done" /\ \A c \in DOMAIN clusters : Members(c) \subseteq Universe) =>
        /\ representatives = prev.representatives
        /\ out_file = prev.out_file
        /\ json_file = prev.json_file

(***************************************************************************)
(* C9.  Empty universe is fatal: once the header has yielded no identifier *)
(* the run does not reach the end and writes neither artifact.             *)
(***************************************************************************)
C9_EmptyUniverseFatal ==
    (pc \notin {"start", "header", "exit"} /\ Universe = {}) =>
        /\ pc # "done"
        /\ out_file = Untouched
        /\ json_file = UntouchedJson

(***************************************************************************)
(* C10.  Missing input aborts first: when the distance file does not exist *)
(* the run is at its start or has exited with an error; nothing has been   *)
(* parsed, resolved or clustered and neither artifact has been opened.     *)
(***************************************************************************)
C10_MissingInputAborts ==
    ~dist_exists =>
        /\ pc \in {"start", "exit"}
        /\ genome_paths = <<>> /\ neighbors = <<>> /\ i = 0
        /\ ref_ids = {} /\ genome_connectivity = <<>>
        /\ clusters = <<>> /\ assigned = {} /\ representatives = <<>>
        /\ out_file = Untouched /\ json_file = UntouchedJson

C10_Witness == ~dist_exists /\ pc = "exit"

(***************************************************************************)
(* Views of the two-threshold comparison.                                  *)
(***************************************************************************)
\* the edges of a neighbor mapping, as ordered pairs
Edges(nb) == {e \in (DOMAIN nb) \X (UNION {nb[x] : x \in DOMAIN nb}) : e[2] \in nb[e[1]]}

\* the identifiers connected to those of S
RECURSIVE Reach(_, _)
Reach(nb, S) ==
    LET T == S \cup UNION {NbGet(nb, x) : x \in S}
    IN  IF T = S THEN S ELSE Reach(nb, T)

\* the connected components of the graph that hold an identifier of U
Components(nb, U) == {Reach(nb, {g}) : g \in U}

(***************************************************************************)
(* C3.  Threshold monotonicity of clusters as claimed: for thresholds      *)
(* lo <= hi on the same matrix and references, clustering at hi yields at  *)
(* least as many clusters as clustering at lo.                             *)
(***************************************************************************)
C3_ClusterCountMonotone ==
    pair.pc = "done" => Len(pair.clHi) >= Len(pair.clLo)

(***************************************************************************)
(* C3, amended.  For thresholds lo <= hi on the same matrix and            *)
(* references, clustering at hi yields at least as many clusters as the    *)
(* NeighborGraph built at lo has connected components (among those that    *)
(* hold an identifier of the universe); the cluster count itself can drop. *)
(***************************************************************************)
C3_ClustersAtLeastComponents ==
    pair.pc = "done" =>
        Len(pair.clHi) >= Cardinality(Components(pair.nbLo, KeySet(pair.genome_paths)))

\* a comparison in which raising the threshold removed an edge and the count
\* of clusters dropped, yet stays above the components at the low threshold
C3_Witness ==
    /\ pair.pc = "done"
    /\ pair.lo < pair.hi
    /\ Len(pair.clHi) < Len(pair.clLo)
    /\ Len(pair.clHi) > Cardinality(Components(pair.nbLo, KeySet(pair.genome_paths)))

(***************************************************************************)
(* C4.  Threshold monotonicity of edges: for thresholds lo <= hi on the    *)
(* same matrix, after every cell the edge set built at hi is a subset of   *)
(* the edge set built at lo, so it has no more edges.                      *)
(***************************************************************************)
C4_EdgesMonotone ==
    /\ Edges(pair.nbHi) \subseteq Edges(pair.nbLo)
    /\ Cardinality(Edges(pair.nbHi)) <= Cardinality(Edges(pair.nbLo))

\* raising the threshold kept an edge and removed another
C4_Witness ==
    /\ pair.pc = "done"
    /\ pair.lo < pair.hi
    /\ Edges(pair.nbHi) # {}
    /\ Edges(pair.nbHi) # Edges(pair.nbLo)

(***************************************************************************)
(* C11.  Reference resolution: with protection enabled, once the tokens    *)
(* are resolved the ReferenceSet holds, for every token, the first         *)
(* identifier in universe order whose normalized form contains the         *)
(* normalized token, and nothing else; a token that matches no identifier  *)
(* adds nothing.  So the ReferenceSet has at most as many members as there *)
(* are tokens and is a subset of the universe.                             *)
(***************************************************************************)
\* the places, in universe order, of the identifiers that token matches
Matches(token) ==
    {x \in DOMAIN genome_paths :
        Contains(normalize_id(genome_paths[x].gid), normalize_id(token))}

C11_ReferenceResolution ==
    (pc \in {"queue", "cluster", "select", "done"} /\ ~args.no_reference_protection) =>
        /\ \A t \in DOMAIN args.reference :
              \A x \in Matches(args.reference[t]) :
                 (\A y \in Matches(args.reference[t]) : x <= y) =>
                     genome_paths[x].gid \in ref_ids
        /\ \A g \in ref_ids :
              \E t \in DOMAIN args.reference :
                 \E x \in Matches(args.reference[t]) :
                    /\ genome_paths[x].gid = g
                    /\ \A y \in Matches(args.reference[t]) : x <= y
        /\ Cardinality(ref_ids) <= Len(args.reference)
        /\ ref_ids \subseteq Universe

\* a finished run with one token that matches nothing and one that matches
\* two identifiers of which only the first is protected
C11_Witness ==
    /\ pc = "done"
    /\ ~args.no_reference_protection
    /\ \E t \in DOMAIN args.reference : Matches(args.reference[t]) = {}
    /\ \E t \in DOMAIN args.reference : Cardinality(Matches(args.reference[t])) = 2
    /\ Cardinality(ref_ids) = 1

(***************************************************************************)
(* C12.  Protection switch equivalence: a run with protection disabled has *)
(* an empty ReferenceSet, and a run on the same input without tokens has   *)
(* the same processing order, the same clusters and the same               *)
(* representatives; the tokens have no effect on any later step.  Stated   *)
(* for the runs whose clusters hold identifiers of the header only.        *)
(***************************************************************************)
C12_SwitchEquivalence ==
    (prev.runs = 1 /\ pc = "done" /\ \A c \in DOMAIN clusters : Members(c) \subseteq Universe) =>
        /\ prev.ref_ids = {}
        /\ ref_ids = {}
        /\ genome_connectivity = prev.genome_connectivity
        /\ [c \in DOMAIN clusters |-> Members(c)] =
              [c \in DOMAIN prev.clusters |-> Range(prev.clusters[c])]
        /\ representatives = prev.representatives

(***************************************************************************)
(* Views of the parsing loop.                                              *)
(***************************************************************************)
\* the row loop is running, or has been left by an uncaught exception
Parsing == pc \in {"rows", "cells"} \/ (pc = "crash" /\ out_file = Untouched)

\* line 84: the identifier the code uses for the cell at 0-based position jj
TargetId(jj) == Keys(genome_paths)[jj + 1]

(***************************************************************************)
(* C13.  Column mapping: while the rows are parsed, the identifier used    *)
(* for the distance at position j is the identifier extracted from the     *)
(* header token at position j, also when two header tokens yield the same  *)
(* identifier; every cell within the header's width is mapped to a column  *)
(* identifier, so that no row is left by an exception at such a cell.      *)
(***************************************************************************)
C13_ColumnMapping ==
    Parsing =>
        /\ \A x \in DOMAIN all_genomes_list :
              /\ x \in DOMAIN genome_paths
              /\ TargetId(x - 1) = extract_genome_id(all_genomes_list[x])
        /\ pc = "crash" => j >= Len(all_genomes_list)

\* the cells read so far that are decimal numbers within the cutoff and stand
\* in a column of the header
Close ==
    {m \in matrix : /\ m.cell.kind = "num"
                    /\ m.cell.val <= distance_threshold(args.threshold)
                    /\ m.j < Len(all_genomes_list)}

\* the identifier of the header token above the cell
Column(m) == extract_genome_id(all_genomes_list[m.j + 1])

\* every identifier met so far
Seen ==
    Universe \cup DOMAIN neighbors \cup UNION {neighbors[g] : g \in DOMAIN neighbors}
             \cup {m.query_id : m \in matrix}

(***************************************************************************)
(* C14.  Edge characterization: while the rows are parsed, so in the       *)
(* finished NeighborGraph too, b is a neighbor of a iff a # b and some     *)
(* numeric cell of (row a, column b) or of (row b, column a) is within the *)
(* cutoff 1 - threshold.  No identifier is its own neighbor; a non-numeric *)
(* or NaN cell adds no edge and the other cells of its row still count.    *)
(* Stated for the rows whose label is an identifier of the header.         *)
(***************************************************************************)
C14_EdgeCharacterization ==
    (Parsing /\ \A m \in matrix : m.query_id \in Universe) =>
        \A a, b \in Seen :
            b \in NbGet(neighbors, a) <=>
                /\ a # b
                /\ \E m \in Close :
                      \/ m.query_id = a /\ Column(m) = b
                      \/ m.query_id = b /\ Column(m) = a

(***************************************************************************)
(* Views of the greedy loop.                                               *)
(***************************************************************************)
Clustering == pc \in {"cluster", "select", "done"} \/ (pc = "crash" /\ out_file # Untouched)

\* the place of identifier g in the clustering queue
QueuePos(g) == CHOOSE x \in DOMAIN genome_connectivity : genome_connectivity[x].g = g

\* The seed of cluster c, the g of `cluster = {g}`: the member the loop
\* reached first.  Every other member was unassigned when the cluster was
\* started, so the loop had not reached it.
Seed(c) ==
    LET queued == Members(c) \cap {genome_connectivity[x].g : x \in DOMAIN genome_connectivity}
    IN  CHOOSE g \in queued : \A h \in queued : QueuePos(g) <= QueuePos(h)

\* the identifiers assigned when cluster c was started
AssignedBefore(c) == UNION {Members(d) : d \in 1..(c - 1)}

(***************************************************************************)
(* C15.  One-hop absorption: every cluster is its seed g together with     *)
(* exactly the neighbors of g that were unassigned when g was processed.   *)
(* So every member is the seed or adjacent to it, and no identifier at     *)
(* distance 2 or more from the seed is in the seed's cluster.              *)
(***************************************************************************)
C15_OneHopAbsorption ==
    Clustering =>
        \A c \in DOMAIN clusters :
            /\ Members(c) = {Seed(c)} \cup (NbGet(neighbors, Seed(c)) \ AssignedBefore(c))
            /\ \A m \in Members(c) :
                  m = Seed(c) \/ (m \in NbGet(neighbors, Seed(c)) /\ Seed(c) \in NbGet(neighbors, m))

\* a finished clustering in which a seed left out an identifier two hops away
\* and a later seed found a neighbor already assigned
C15_Witness ==
    /\ pc = "done"
    /\ \E c \in DOMAIN clusters :
          \E x \in NbGet(neighbors, Seed(c)) :
             \E y \in NbGet(neighbors, x) :
                /\ y # Seed(c)
                /\ y \notin NbGet(neighbors, Seed(c))
                /\ y \notin Members(c)
    /\ \E c \in DOMAIN clusters : NbGet(neighbors, Seed(c)) \cap AssignedBefore(c) # {}

\* the number of neighbors of g, and the place of g in the header's identifiers
Degree(g) == Cardinality(NbGet(neighbors, g))
Discovery(g) == CHOOSE x \in DOMAIN genome_paths : genome_paths[x].gid = g

(***************************************************************************)
(* C16.  Processing order: the clustering queue is a permutation of the    *)
(* universe, each identifier with its degree; no unprotected identifier    *)
(* precedes a protected one; within the protected and within the           *)
(* unprotected identifiers (the whole queue when the ReferenceSet is       *)
(* empty) the degrees do not increase, and identifiers of equal degree are *)
(* in header order.                                                        *)
(***************************************************************************)
C16_ProcessingOrder ==
    Clustering =>
        /\ Len(genome_connectivity) = Cardinality(Universe)
        /\ {genome_connectivity[x].g : x \in DOMAIN genome_connectivity} = Universe
        /\ \A x \in DOMAIN genome_connectivity :
              genome_connectivity[x].deg = Degree(genome_connectivity[x].g)
        /\ \A x, y \in DOMAIN genome_connectivity :
              LET e == genome_connectivity[x]
                  f == genome_connectivity[y]
              IN  x < y =>
                    /\ ~(e.g \notin ref_ids /\ f.g \in ref_ids)
                    /\ (e.g \in ref_ids <=> f.g \in ref_ids) =>
                          /\ e.deg >= f.deg
                          /\ e.deg = f.deg => Discovery(e.g) < Discovery(f.g)

\* a queue in which a protected identifier precedes one of higher degree and
\* two unprotected identifiers of equal degree follow in header order
C16_Witness ==
    /\ pc = "cluster"
    /\ \E x, y \in DOMAIN genome_connectivity :
          /\ x < y
          /\ genome_connectivity[x].g \in ref_ids
          /\ genome_connectivity[x].deg < genome_connectivity[y].deg
    /\ \E x, y \in DOMAIN genome_connectivity :
          /\ x < y
          /\ genome_connectivity[x].g \notin ref_ids
          /\ genome_connectivity[y].g \notin ref_ids
          /\ genome_connectivity[x].deg = genome_connectivity[y].deg
          /\ genome_connectivity[x].deg > 0

\* S is pairwise adjacent in nb and no identifier outside S has a neighbor
IsolatedClique(nb, S) ==
    /\ S # {}
    /\ \A a \in S : NbGet(nb, a) = S \ {a}
    /\ \A g \in DOMAIN nb \ S : nb[g] = {}

\* the clusters cl are S and one singleton for every other identifier of U
CliqueAndSingletons(cl, U, S) ==
    /\ Range(cl) = {S} \cup {{g} : g \in U \ S}
    /\ Len(cl) = 1 + (Cardinality(U) - Cardinality(S))

(***************************************************************************)
(* C17.  Isolated clique: if the identifiers of a set S are pairwise       *)
(* within the cutoff and every identifier outside S is farther than the    *)
(* cutoff from every other one, then for any reference set the clusters    *)
(* are S and one singleton per identifier outside S, 1 + (N - |S|) in all. *)
(* Checked at both thresholds of the comparison.                           *)
(***************************************************************************)
C17_IsolatedClique ==
    pair.pc = "done" =>
        \A S \in SUBSET KeySet(pair.genome_paths) :
            /\ IsolatedClique(pair.nbLo, S) =>
                  CliqueAndSingletons(pair.clLo, KeySet(pair.genome_paths), S)
            /\ IsolatedClique(pair.nbHi, S) =>
                  CliqueAndSingletons(pair.clHi, KeySet(pair.genome_paths), S)

\* Scenario A at the scale of the model: three genomes pairwise close, one
\* outlier that is protected, two clusters
C17_Witness ==
    /\ pair.pc = "done"
    /\ Len(pair.clLo) = 2
    /\ \E S \in SUBSET KeySet(pair.genome_paths) :
          /\ Cardinality(S) = 3
          /\ IsolatedClique(pair.nbLo, S)
          /\ pair.ref_ids # {}
          /\ pair.ref_ids \cap S = {}

(***************************************************************************)
(* C18.  Cluster seeds form an independent set: no two identifiers that    *)
(* started a cluster are neighbors of each other.                          *)
(***************************************************************************)
C18_SeedsIndependent ==
    Clustering =>
        \A c, d \in DOMAIN clusters :
            c # d => /\ Seed(c) # Seed(d)
                     /\ Seed(d) \notin NbGet(neighbors, Seed(c))

\* a finished clustering with two seeds that share a neighbor
C18_Witness ==
    /\ pc = "done"
    /\ \E c, d \in DOMAIN clusters :
          /\ c # d
          /\ NbGet(neighbors, Seed(c)) \cap NbGet(neighbors, Seed(d)) # {}

(***************************************************************************)
(* C19.  A protected reference is never absorbed by an unprotected seed:   *)
(* when the ReferenceSet is non-empty, every cluster that holds a          *)
(* protected identifier was started by a protected identifier, and when    *)
(* the loop comes to the first unprotected identifier every protected one  *)
(* is already assigned.                                                    *)
(***************************************************************************)
C19_ReferencesSeedFirst ==
    (Clustering /\ ref_ids # {}) =>
        /\ \A c \in DOMAIN clusters : RefsIn(c) # {} => Seed(c) \in ref_ids
        /\ \A x \in DOMAIN genome_connectivity :
              (x <= qpos + 1 /\ genome_connectivity[x].g \notin ref_ids) =>
                  ref_ids \subseteq assigned

\* a finished clustering in which a protected identifier absorbed an
\* unprotected neighbor of higher degree
C19_Witness ==
    /\ pc = "done"
    /\ \E c \in DOMAIN clusters :
          /\ Seed(c) \in ref_ids
          /\ \E h \in Members(c) \ ref_ids : Degree(h) > Degree(Seed(c))

(***************************************************************************)
(* C20.  Output lookups are closed over the universe: every identifier     *)
(* that is a key or a member in the adjacency mapping, a member of a       *)
(* cluster or an entry of the representative list is a key of the          *)
(* identifier -> path mapping of the header, whatever the row labels are,  *)
(* so that writing a representative's path never fails.                    *)
(***************************************************************************)
C20_LookupsClosed ==
    /\ DOMAIN neighbors \subseteq Universe
    /\ \A g \in DOMAIN neighbors : neighbors[g] \subseteq Universe
    /\ \A c \in DOMAIN clusters : Members(c) \subseteq Universe
    /\ Range(representatives) \subseteq Universe
    /\ ~(pc = "crash" /\ out_file # Untouched)

====
